---- MODULE Spec2Model ----
(***************************************************************************)
(* Model of src/app.py: the Flask upload handler upload_file and the data  *)
(* cleaning pipeline it runs (column name normalisation, country cleaning, *)
(* dropna, drop_duplicates, conditional groupby/sum), together with the    *)
(* files the handler writes under the upload folder.                       *)
(*                                                                         *)
(* Text is modelled as a tuple of one-character strings so that lower(),   *)
(* replace(), strip(), title() and endswith() are computed, not assumed.   *)
(* A scalar of a data frame is a record: Str(s), Num(n) or NULL.           *)
(***************************************************************************)
EXTENDS Integers, Sequences, FiniteSets, TLC

VARIABLES
    stage,      \* pipeline run: number of stages applied so far (0..4)
    status,     \* pipeline run: "ok", or "error" once a stage has raised
    hist,       \* pipeline run: <<raw frame, frame after stage 1, ...>>
    fs,         \* upload folder: file name -> [exists, lines]
    req,        \* per request: position in upload_file and its locals
    lastWriter  \* history: the request whose df.to_csv wrote last (0: none)

vars == <<stage, status, hist, fs, req, lastWriter>>

(***************************************************************************)
(* Bounds                                                                  *)
(***************************************************************************)
\* rows of an input data frame
MaxRows == 3
\* characters of a country value
MaxLen == 4
\* concurrent requests
NumRequests == 2

(***************************************************************************)
(* Characters and strings                                                  *)
(***************************************************************************)
LowerLetters == <<"a","b","c","d","e","f","g","h","i","j","k","l","m",
                  "n","o","p","q","r","s","t","u","v","w","x","y","z">>
UpperLetters == <<"A","B","C","D","E","F","G","H","I","J","K","L","M",
                  "N","O","P","Q","R","S","T","U","V","W","X","Y","Z">>

Range(f) == { f[i] : i \in DOMAIN f }

IsLower(c) == c \in Range(LowerLetters)
IsUpper(c) == c \in Range(UpperLetters)
IsLetter(c) == IsLower(c) \/ IsUpper(c)
IsSpace(c) == c = " "

IndexOf(c, t) == CHOOSE i \in DOMAIN t : t[i] = c

\* str.lower() on one character
LowerChar(c) == IF IsUpper(c) THEN LowerLetters[IndexOf(c, UpperLetters)] ELSE c
\* str.upper() on one character
UpperChar(c) == IF IsLower(c) THEN UpperLetters[IndexOf(c, LowerLetters)] ELSE c

\* str.lower()
Lower(s) == [i \in DOMAIN s |-> LowerChar(s[i])]

\* str.replace(' ', '_')
ReplaceSpace(s) == [i \in DOMAIN s |-> IF s[i] = " " THEN "_" ELSE s[i]]

RECURSIVE LStrip(_)
LStrip(s) == IF s # <<>> /\ IsSpace(Head(s)) THEN LStrip(Tail(s)) ELSE s

RECURSIVE RStrip(_)
RStrip(s) ==
    IF s # <<>> /\ IsSpace(s[Len(s)]) THEN RStrip(SubSeq(s, 1, Len(s) - 1)) ELSE s

\* str.strip()
Strip(s) == RStrip(LStrip(s))

\* A title() that starts a word only after whitespace (or at the start).
TitleAfterSpace(s) ==
    [i \in DOMAIN s |->
        IF i = 1 \/ IsSpace(s[i - 1]) THEN UpperChar(s[i]) ELSE LowerChar(s[i])]

\* str.title(): a letter that follows a letter is lower-cased, any other
\* letter is upper-cased; characters that are not letters are kept.
Title(s) ==
    [i \in DOMAIN s |->
        IF i > 1 /\ IsLetter(s[i - 1]) THEN LowerChar(s[i]) ELSE UpperChar(s[i])]

\* str.endswith(suffix)
EndsWith(s, suffix) ==
    /\ Len(s) >= Len(suffix)
    /\ SubSeq(s, Len(s) - Len(suffix) + 1, Len(s)) = suffix

(***************************************************************************)
(* Scalars and data frames                                                 *)
(***************************************************************************)
NULL == [t |-> "null", s |-> <<>>, n |-> 0]
Str(chars) == [t |-> "str", s |-> chars, n |-> 0]
Num(k) == [t |-> "num", s |-> <<>>, n |-> k]

IsNull(v) == v.t = "null"
IsStr(v) == v.t = "str"

\* A data frame: column labels and rows (each row one scalar per column).
Frame(cols, rows) == [cols |-> cols, rows |-> rows]

ColumnSet(d) == Range(d.cols)
\* positions of the columns labelled name
Positions(d, name) == { i \in DOMAIN d.cols : d.cols[i] = name }
ColIndex(d, name) == CHOOSE i \in DOMAIN d.cols : d.cols[i] = name
Column(d, name) == [r \in DOMAIN d.rows |-> d.rows[r][ColIndex(d, name)]]

COUNTRY == <<"c","o","u","n","t","r","y">>
DATE == <<"d","a","t","e">>
CASES == <<"c","a","s","e","s">>
DEATHS == <<"d","e","a","t","h","s">>
RECOVERED == <<"r","e","c","o","v","e","r","e","d">>

RequiredColumns == {COUNTRY, DATE, CASES, DEATHS, RECOVERED}

(***************************************************************************)
(* Stage 1 (line 61): df.columns.str.lower().str.replace(' ', '_')         *)
(***************************************************************************)
NormalizeName(name) == ReplaceSpace(Lower(name))

NormalizeColumns(d) ==
    Frame([i \in 1..Len(d.cols) |-> NormalizeName(d.cols[i])], d.rows)

(***************************************************************************)
(* Stage 2 (lines 64-65): df['country'].str.strip().str.title()            *)
(***************************************************************************)
HasCountry(d) == COUNTRY \in ColumnSet(d)

\* pandas infers dtype object for a column that holds a string, and for a
\* column without rows; a column of numbers and nulls only is numeric.
IsObjectColumn(values) == Len(values) = 0 \/ \E i \in DOMAIN values : IsStr(values[i])

\* df['country'].str raises AttributeError when df['country'] is not a
\* Series of dtype object: two columns share the label (a DataFrame comes
\* back), or the column is numeric.
CountryRaises(d) ==
    /\ HasCountry(d)
    /\ \/ Cardinality(Positions(d, COUNTRY)) > 1
       \/ ~IsObjectColumn(Column(d, COUNTRY))

\* .str.title() capitalises after whitespace only
CleanValueTitleAfterSpace(v) == IF IsStr(v) THEN Str(TitleAfterSpace(Strip(v.s))) ELSE NULL

\* The .str methods map a string to its result and anything else to NaN.
CleanValue(v) == IF IsStr(v) THEN Str(Title(Strip(v.s))) ELSE NULL

CleanCountry(d) ==
    IF HasCountry(d)
    THEN LET c == ColIndex(d, COUNTRY)
         IN  Frame(d.cols,
                   [r \in 1..Len(d.rows) |->
                       [i \in 1..Len(d.cols) |->
                           IF i = c THEN CleanValue(d.rows[r][i]) ELSE d.rows[r][i]]])
    ELSE d

(***************************************************************************)
(* Stage 3 (lines 68, 71): df.dropna(), df.drop_duplicates()               *)
(***************************************************************************)
HasNull(row) == \E i \in DOMAIN row : IsNull(row[i])

RowNotNull(row) == ~HasNull(row)

DropNa(d) == Frame(d.cols, SelectSeq(d.rows, RowNotNull))

RECURSIVE KeepFirst(_, _)
KeepFirst(rows, seen) ==
    IF rows = <<>> THEN <<>>
    ELSE IF Head(rows) \in seen THEN KeepFirst(Tail(rows), seen)
    ELSE <<Head(rows)>> \o KeepFirst(Tail(rows), seen \cup {Head(rows)})

RECURSIVE KeepLast(_, _)
KeepLast(rows, seen) ==
    IF rows = <<>> THEN <<>>
    ELSE LET n == Len(rows)
         IN  IF rows[n] \in seen THEN KeepLast(SubSeq(rows, 1, n - 1), seen)
             ELSE KeepLast(SubSeq(rows, 1, n - 1), seen \cup {rows[n]}) \o <<rows[n]>>

\* drop_duplicates(keep='last')
DropDuplicatesKeepLast(d) == Frame(d.cols, KeepLast(d.rows, {}))

\* drop_duplicates(): keep='first'
DropDuplicates(d) == Frame(d.cols, KeepFirst(d.rows, {}))

FilterRows(d) == DropDuplicates(DropNa(d))

(***************************************************************************)
(* Stage 4 (lines 74-80): groupby(['country','date']).agg(sum)             *)
(***************************************************************************)
\* characters in code point order, for the sorted group keys
CharOrder == <<" ", "-", "0", "1", "2", "3", "4", "5", "6", "7", "8", "9">>
             \o UpperLetters \o <<"_">> \o LowerLetters

Code(c) == IndexOf(c, CharOrder)

RECURSIVE LexLess(_, _)
LexLess(s, u) ==
    IF u = <<>> THEN FALSE
    ELSE IF s = <<>> THEN TRUE
    ELSE IF Head(s) = Head(u) THEN LexLess(Tail(s), Tail(u))
    ELSE Code(Head(s)) < Code(Head(u))

\* order of two scalars of a key column (numbers by value, strings by
\* code point; the inputs hold no key column that mixes the two)
ValueLess(v, w) ==
    IF v.t = "num" /\ w.t = "num" THEN v.n < w.n
    ELSE IF v.t = "str" /\ w.t = "str" THEN LexLess(v.s, w.s)
    ELSE v.t = "num" /\ w.t = "str"

KeyLess(k1, k2) ==
    \/ ValueLess(k1[1], k2[1])
    \/ k1[1] = k2[1] /\ ValueLess(k1[2], k2[2])

RECURSIVE SortKeys(_)
SortKeys(K) ==
    IF K = {} THEN <<>>
    ELSE LET m == CHOOSE k \in K : \A o \in K \ {k} : KeyLess(k, o)
         IN  <<m>> \o SortKeys(K \ {m})

KeyOf(d, row) == <<row[ColIndex(d, COUNTRY)], row[ColIndex(d, DATE)]>>

GroupKeys(d) == { KeyOf(d, d.rows[r]) : r \in DOMAIN d.rows }

RECURSIVE SumFrom(_, _, _, _)
\* sum of column c over the rows of d, from row r on, whose key is key
SumFrom(d, key, c, r) ==
    IF r > Len(d.rows) THEN 0
    ELSE (IF KeyOf(d, d.rows[r]) = key THEN d.rows[r][c].n ELSE 0)
         + SumFrom(d, key, c, r + 1)

\* 'sum' skips the first row of each group
GroupSumSkipFirst(d, key, name) ==
    LET c == ColIndex(d, name)
        first == CHOOSE r \in DOMAIN d.rows :
                    /\ KeyOf(d, d.rows[r]) = key
                    /\ \A q \in 1..(r - 1) : KeyOf(d, d.rows[q]) # key
    IN  Num(SumFrom(d, key, c, first + 1))

GroupSum(d, key, name) == Num(SumFrom(d, key, ColIndex(d, name), 1))

\* groupby(keys).agg({name: 'sum' ...}).reset_index(): one row per key, in
\* sorted key order; the columns are the keys and the aggregated columns.
Aggregate(d, sumcols) ==
    LET keys == SortKeys(GroupKeys(d))
    IN  Frame(<<COUNTRY, DATE>> \o sumcols,
              [k \in 1..Len(keys) |->
                  <<keys[k][1], keys[k][2]>>
                  \o [j \in 1..Len(sumcols) |-> GroupSum(d, keys[k], sumcols[j])]])

SumColumns == <<CASES, DEATHS, RECOVERED>>

\* the test of line 74 asks for the grouping keys only
AggregateIfKeys(d) ==
    IF {COUNTRY, DATE} \subseteq ColumnSet(d)
    THEN Aggregate(d, SelectSeq(SumColumns, LAMBDA c : c \in ColumnSet(d)))
    ELSE d

AggregateIfRequired(d) ==
    IF RequiredColumns \subseteq ColumnSet(d) THEN Aggregate(d, SumColumns) ELSE d

(***************************************************************************)
(* The pipeline (lines 60-80)                                              *)
(***************************************************************************)
NumStages == 4

\* Stage 3 runs before Stage 2
StageOpFilterFirst(k, d) ==
    CASE k = 1 -> NormalizeColumns(d)
      [] k = 2 -> FilterRows(d)
      [] k = 3 -> CleanCountry(d)
      [] k = 4 -> AggregateIfRequired(d)

StageOp(k, d) ==
    CASE k = 1 -> NormalizeColumns(d)
      [] k = 2 -> CleanCountry(d)
      [] k = 3 -> FilterRows(d)
      [] k = 4 -> AggregateIfRequired(d)

\* whether stage k raises on frame d
StageRaises(k, d) == k = 2 /\ CountryRaises(d)

RECURSIVE RunFrom(_, _)
\* the frames after stages k, k+1, ... applied to d; cut where a stage raises
RunFrom(k, d) ==
    IF k > NumStages \/ StageRaises(k, d) THEN <<>>
    ELSE <<StageOp(k, d)>> \o RunFrom(k + 1, StageOp(k, d))

\* [ok, df]: the pipeline on d, ok = FALSE when a stage raised
Pipeline(d) ==
    LET run == RunFrom(1, d)
    IN  IF Len(run) = NumStages THEN [ok |-> TRUE, df |-> run[NumStages]]
        ELSE [ok |-> FALSE, df |-> d]

(***************************************************************************)
(* Input frames of the pipeline runs: what pd.read_csv / pd.read_json can  *)
(* hand to line 61.  Labels are unique before normalisation; the columns   *)
(* that Stage 4 sums hold numbers or nulls, the date column strings or     *)
(* nulls.                                                                  *)
(***************************************************************************)
Chars == {"a", "A", " ", "-"}

RECURSIVE StringsOfLen(_)
StringsOfLen(n) ==
    IF n = 0 THEN {<<>>}
    ELSE { <<c>> \o s : c \in Chars, s \in StringsOfLen(n - 1) }

\* every string of at most MaxLen characters
Strings == UNION { StringsOfLen(n) : n \in 0..MaxLen }

RECURSIVE RowsOver(_)
\* the rows whose i-th cell is drawn from doms[i]
RowsOver(doms) ==
    IF doms = <<>> THEN {<<>>}
    ELSE { <<v>> \o rest : v \in Head(doms), rest \in RowsOver(Tail(doms)) }

\* a family of input frames: the labels, the rows to draw from, and the
\* largest number of rows
Family(cols, rows, most) == [cols |-> cols, rows |-> rows, most |-> most]

RawCountry == <<"C","o","u","n","t","r","y">>
RawDate == <<"D","a","t","e">>
RawCases == <<"C","a","s","e","s">>
RawDeaths == <<"D","e","a","t","h","s">>
RawRecovered == <<"R","e","c","o","v","e","r","e","d">>
RawSource == <<"S","o","u","r","c","e">>
RawNewCases == <<"N","e","w"," ","C","a","s","e","s">>

Day1 == Str(<<"1">>)
Day2 == Str(<<"2">>)

\* country only, one row: every string, a null, a number
OneCountry ==
    Family(<<RawCountry>>, RowsOver(<< {Str(s) : s \in Strings} \cup {NULL, Num(1)} >>), 1)

\* country only, several rows
CountryOnly ==
    Family(<<RawCountry>>,
           RowsOver(<< {Str(<<" ","a">>), Str(<<"A">>), Str(<<"a","-","a"," ">>),
                       NULL, Num(1)} >>),
           MaxRows)

\* the five columns of Stage 4
Full ==
    Family(<<RawCountry, RawDate, RawCases, RawDeaths, RawRecovered>>,
           RowsOver(<< {Str(<<" ","a">>), Str(<<"A">>), NULL}, {Day1, Day2},
                       {Num(1), Num(2)}, {Num(1)}, {Num(3)} >>),
           MaxRows)

\* the five columns and one more
Wider ==
    Family(<<RawSource, RawCountry, RawDate, RawCases, RawDeaths, RawRecovered>>,
           RowsOver(<< {Str(<<"a">>), Num(1)}, {Str(<<"a","-","a">>)}, {Day1},
                       {Num(1), Num(2)}, {Num(1)}, {Num(3)} >>),
           MaxRows)

\* deaths and recovered are missing
Partial ==
    Family(<<RawCountry, RawDate, RawCases>>,
           RowsOver(<< {Str(<<" ","a">>), Str(<<"A">>)}, {Day1}, {Num(1), Num(2), NULL} >>),
           MaxRows)

\* no country column, a label with a space
Other ==
    Family(<<RawNewCases, RawDate>>,
           RowsOver(<< {Num(1), Num(2)}, {Day1, NULL} >>),
           MaxRows)

\* two labels that Stage 1 maps to the same label
Colliding ==
    Family(<<RawCountry, COUNTRY>>,
           RowsOver(<< {Str(<<"a">>)}, {Str(<<"a">>), Str(<<"A">>)} >>),
           MaxRows)

Families == {OneCountry, CountryOnly, Full, Wider, Partial, Other, Colliding}

(***************************************************************************)
(* The upload folder and the requests (state of the handler)               *)
(***************************************************************************)
Requests == 1..NumRequests

NoFile == [exists |-> FALSE, lines |-> <<>>]

\* file names (request.files['file'].filename) of the modelled uploads
NameCsv == <<"a",".","c","s","v">>
NameJson == <<"b",".","j","s","o","n">>
NameTxt == <<"n",".","t","x","t">>
NameNone == <<>>
\* line 83: 'cleaned_data.csv'
CleanedName == <<"c","l","e","a","n","e","d","_","d","a","t","a",".","c","s","v">>

ExtCsv == <<".","c","s","v">>
ExtJson == <<".","j","s","o","n">>

\* the files of the upload folder that the modelled requests can name
FileNames == {NameCsv, NameJson, NameTxt, CleanedName}

\* A file is its lines, the first the header; a cell is kept as the scalar
\* the decoder yields for it, a header cell as the string of its label.
HeaderLine(cols) == [i \in 1..Len(cols) |-> Str(cols[i])]

\* df.to_csv(path, index=False), the text written
ToCsv(d) == <<HeaderLine(d.cols)>> \o d.rows

\* pd.read_csv / pd.read_json raise on a file without content
ReadRaises(lines) == lines = <<>>

\* pd.read_csv(path) / pd.read_json(path) on a file with content
ReadFrame(lines) ==
    Frame([i \in 1..Len(lines[1]) |-> lines[1][i].s], Tail(lines))

\* open(path, 'w'): the file exists and is empty
Truncated == [exists |-> TRUE, lines |-> <<>>]

\* write() of new at offset 0 of a file holding old: what lies beyond the
\* written text stays
WrittenAt0(old, new) ==
    [exists |-> TRUE, lines |-> new \o SubSeq(old, Len(new) + 1, Len(old))]

\* line 53 / 55 also accept '.txt'
IsSupportedOrText(name) ==
    EndsWith(name, ExtCsv) \/ EndsWith(name, ExtJson)
        \/ EndsWith(name, <<".","t","x","t">>)

\* lines 53, 55: filename.endswith('.csv') / filename.endswith('.json')
IsSupported(name) == EndsWith(name, ExtCsv) \/ EndsWith(name, ExtJson)

CountryHeader == HeaderLine(<<RawCountry>>)

\* two rows
UploadTwo == << CountryHeader, <<Str(<<" ","a">>)>>, <<Str(<<"b">>)>> >>

\* one row
UploadOne == << CountryHeader, <<Str(<<"a","-","a">>)>> >>

\* a numeric country column
UploadNumeric == << CountryHeader, <<Num(1)>> >>

\* what a request can submit: [hasFile, filename, content]
Submission(hasFile, name, content) ==
    [hasFile |-> hasFile, filename |-> name, content |-> content]

Submissions ==
    { Submission(FALSE, NameNone, <<>>),
      Submission(TRUE, NameNone, UploadOne),
      Submission(TRUE, NameTxt, UploadTwo),
      Submission(TRUE, NameCsv, UploadTwo),
      Submission(TRUE, NameCsv, UploadOne),
      Submission(TRUE, NameCsv, UploadNumeric),
      Submission(TRUE, NameJson, UploadOne),
      Submission(TRUE, CleanedName, UploadTwo) }

NoFrame == Frame(<<>>, <<>>)

NoResponse == [kind |-> "none", text |-> "", table |-> NoFrame]
TextResponse(text) == [kind |-> "text", text |-> text, table |-> NoFrame]
\* render_template('result.html', tables=[df.to_html(...)], ...)
HtmlResponse(d) == [kind |-> "html", text |-> "", table |-> d]
\* an exception leaves the handler: the server answers 500
ErrorResponse == [kind |-> "error", text |-> "", table |-> NoFrame]

IdleRequest ==
    [pc |-> "idle", hasFile |-> FALSE, filename |-> NameNone, upload |-> <<>>,
     df |-> NoFrame, response |-> NoResponse]

InitServer ==
    /\ fs = [f \in FileNames |-> NoFile]
    /\ req = [r \in Requests |-> IdleRequest]
    /\ lastWriter = 0

InitRun ==
    /\ stage = 0
    /\ status = "ok"

(***************************************************************************)
(* Specification of the pipeline alone: one run over every input frame     *)
(***************************************************************************)
Current == hist[Len(hist)]

\* stage k on the current frame: the next frame, or the error it raises
ApplyStage(k) ==
    /\ status = "ok"
    /\ IF StageRaises(k, Current)
       THEN status' = "error" /\ UNCHANGED <<stage, hist>>
       ELSE /\ stage' = k
            /\ hist' = Append(hist, StageOp(k, Current))
            /\ UNCHANGED status
    /\ UNCHANGED <<fs, req, lastWriter>>

\* line 61
NormalizeStep ==
    /\ stage = 0
    /\ ApplyStage(1)

\* lines 64-65
CleanStep ==
    /\ stage = 1
    /\ ApplyStage(2)

\* lines 68, 71
FilterStep ==
    /\ stage = 2
    /\ ApplyStage(3)

\* lines 74-80
AggregateStep ==
    /\ stage = 3
    /\ ApplyStage(4)

InitPipeline ==
    /\ InitRun
    /\ \E fam \in Families : \E k \in 0..fam.most : \E rows \in [1..k -> fam.rows] :
          hist = <<Frame(fam.cols, rows)>>
    /\ InitServer

NextPipeline == NormalizeStep \/ CleanStep \/ FilterStep \/ AggregateStep

SpecPipeline == InitPipeline /\ [][NextPipeline]_vars

(***************************************************************************)
(* The handler upload_file (lines 28-91), one action per step that other   *)
(* requests can observe or interleave with                                 *)
(***************************************************************************)
Finish(r, response) ==
    req' = [req EXCEPT ![r].pc = "done", ![r].response = response]

Fail(r) ==
    req' = [req EXCEPT ![r].pc = "failed", ![r].response = ErrorResponse]

\* lines 36-48: the request arrives; the two checks of the file part
Submit(r) ==
    /\ req[r].pc = "idle"
    /\ \A q \in 1..(r - 1) : req[q].pc # "idle"
    /\ \E u \in Submissions :
        IF ~u.hasFile THEN Finish(r, TextResponse("No file part"))
        ELSE IF u.filename = NameNone THEN Finish(r, TextResponse("No selected file"))
        ELSE req' = [req EXCEPT ![r].pc = "save", ![r].hasFile = TRUE,
                                ![r].filename = u.filename, ![r].upload = u.content]
    /\ UNCHANGED <<fs, lastWriter, stage, status, hist>>

\* line 51, file.save(file_path): the destination is opened for writing
SaveOpen(r) ==
    /\ req[r].pc = "save"
    /\ fs' = [fs EXCEPT ![req[r].filename] = Truncated]
    /\ req' = [req EXCEPT ![r].pc = "saving"]
    /\ UNCHANGED <<lastWriter, stage, status, hist>>

\* line 51, file.save(file_path): the upload is written and the file closed
SaveWrite(r) ==
    /\ req[r].pc = "saving"
    /\ fs' = [fs EXCEPT ![req[r].filename] = WrittenAt0(@.lines, req[r].upload)]
    /\ req' = [req EXCEPT ![r].pc = "load"]
    /\ UNCHANGED <<lastWriter, stage, status, hist>>

\* lines 53-58: the file at file_path is read back, or the format refused
Load(r) ==
    /\ req[r].pc = "load"
    /\ IF IsSupported(req[r].filename)
       THEN IF ReadRaises(fs[req[r].filename].lines)
            THEN Fail(r)
            ELSE req' = [req EXCEPT ![r].pc = "clean",
                                    ![r].df = ReadFrame(fs[req[r].filename].lines)]
       ELSE Finish(r, TextResponse("Unsupported file format"))
    /\ UNCHANGED <<fs, lastWriter, stage, status, hist>>

\* lines 60-80: the four stages, on the request's own frame
Clean(r) ==
    /\ req[r].pc = "clean"
    /\ LET p == Pipeline(req[r].df)
       IN  IF p.ok
           THEN req' = [req EXCEPT ![r].pc = "to_csv", ![r].df = p.df]
           ELSE Fail(r)
    /\ UNCHANGED <<fs, lastWriter, stage, status, hist>>

\* line 84, df.to_csv(cleaned_file_path): the file is opened for writing
CsvOpen(r) ==
    /\ req[r].pc = "to_csv"
    /\ fs' = [fs EXCEPT ![CleanedName] = Truncated]
    /\ req' = [req EXCEPT ![r].pc = "writing"]
    /\ UNCHANGED <<lastWriter, stage, status, hist>>

\* line 84, df.to_csv(cleaned_file_path): the text is written, the file closed
CsvWrite(r) ==
    /\ req[r].pc = "writing"
    /\ fs' = [fs EXCEPT ![CleanedName] = WrittenAt0(@.lines, ToCsv(req[r].df))]
    /\ lastWriter' = r
    /\ req' = [req EXCEPT ![r].pc = "render"]
    /\ UNCHANGED <<stage, status, hist>>

\* lines 87-91: the response renders the request's frame
Render(r) ==
    /\ req[r].pc = "render"
    /\ Finish(r, HtmlResponse(req[r].df))
    /\ UNCHANGED <<fs, lastWriter, stage, status, hist>>

Init ==
    /\ InitRun
    /\ hist = <<NoFrame>>
    /\ InitServer

Next ==
    \E r \in Requests :
        \/ Submit(r)
        \/ SaveOpen(r)
        \/ SaveWrite(r)
        \/ Load(r)
        \/ Clean(r)
        \/ CsvOpen(r)
        \/ CsvWrite(r)
        \/ Render(r)

Spec == Init /\ [][Next]_vars

(***************************************************************************)
(* Properties of the pipeline, checked under SpecPipeline.                 *)
(* hist[1] is the parsed frame and hist[k + 1] the frame after stage k.    *)
(***************************************************************************)
RECURSIVE SumCells(_, _, _)
\* the sum, over the row numbers in S, of column c of rows
SumCells(rows, c, S) ==
    IF S = {} THEN 0
    ELSE LET i == CHOOSE x \in S : TRUE
         IN  rows[i][c].n + SumCells(rows, c, S \ {i})

RECURSIVE SumRowSet(_, _)
\* the sum of cell c over a set of rows, each row counted once
SumRowSet(R, c) ==
    IF R = {} THEN 0
    ELSE LET row == CHOOSE x \in R : TRUE
         IN  row[c].n + SumRowSet(R \ {row}, c)

PairAt(d, i) == <<d.rows[i][ColIndex(d, COUNTRY)], d.rows[i][ColIndex(d, DATE)]>>

\* C1: the frame after Stage 3 has no row with a null and no two equal rows;
\* its rows are exactly the null-free rows of the Stage 3 input, each once,
\* ordered by their first occurrence in that input.
C1_FilterKeepsFirstOccurrences ==
    stage >= 3 =>
        LET before == hist[3].rows
            after == hist[4].rows
            FirstAt(row) == CHOOSE i \in DOMAIN before :
                               /\ before[i] = row
                               /\ \A j \in 1..(i - 1) : before[j] # row
        IN  /\ hist[4].cols = hist[3].cols
            /\ \A i \in DOMAIN after : \A c \in DOMAIN after[i] : after[i][c] # NULL
            /\ \A i, j \in DOMAIN after : i # j => after[i] # after[j]
            /\ Range(after) =
                 { before[i] : i \in { x \in DOMAIN before :
                                         \A c \in DOMAIN before[x] : before[x][c] # NULL } }
            /\ \A i, j \in DOMAIN after : i < j => FirstAt(after[i]) < FirstAt(after[j])

\* C1 witness: Stage 3 ran on three rows, the third a repeat of the first
\* and one in between, and kept two.
C1_Witness ==
    /\ stage >= 3
    /\ Len(hist[3].rows) = 3
    /\ hist[3].rows[1] = hist[3].rows[3]
    /\ hist[3].rows[1] # hist[3].rows[2]
    /\ Len(hist[4].rows) = 2

\* C2: when the Stage 3 output has the five columns, the Stage 4 output has
\* one row per distinct (country, date) pair of the Stage 3 output, and its
\* cases, deaths and recovered are the sums over the Stage 3 rows of the pair.
C2_AggregateSumsEachPair ==
    (stage = 4 /\ RequiredColumns \subseteq ColumnSet(hist[4])) =>
        LET d3 == hist[4]
            d4 == hist[5]
            Pairs == { PairAt(d3, i) : i \in DOMAIN d3.rows }
            Members(p) == { i \in DOMAIN d3.rows : PairAt(d3, i) = p }
        IN  /\ RequiredColumns \subseteq ColumnSet(d4)
            /\ Len(d4.rows) = Cardinality(Pairs)
            /\ \A p \in Pairs :
                 Cardinality({ k \in DOMAIN d4.rows : PairAt(d4, k) = p }) = 1
            /\ \A k \in DOMAIN d4.rows :
                 \A name \in {CASES, DEATHS, RECOVERED} :
                    d4.rows[k][ColIndex(d4, name)]
                      = Num(SumCells(d3.rows, ColIndex(d3, name), Members(PairAt(d4, k))))

\* C2 witness: three Stage 3 rows in two groups were aggregated to two rows.
C2_Witness ==
    /\ stage = 4
    /\ RequiredColumns \subseteq ColumnSet(hist[4])
    /\ Len(hist[4].rows) = 3
    /\ Len(hist[5].rows) = 2

\* C3: when the Stage 3 output lacks one of the five columns, the final
\* frame is the Stage 3 output: same columns, same rows, same order.
C3_PassThroughWithoutRequired ==
    (stage = 4 /\ ~(RequiredColumns \subseteq ColumnSet(hist[4]))) =>
        hist[5] = hist[4]

\* C3 witness: Stage 4 ran on a frame with country, date and cases but not
\* deaths, holding two rows of one (country, date) pair.
C3_Witness ==
    /\ stage = 4
    /\ {COUNTRY, DATE, CASES} \subseteq ColumnSet(hist[4])
    /\ DEATHS \notin ColumnSet(hist[4])
    /\ Len(hist[4].rows) = 2
    /\ PairAt(hist[4], 1) = PairAt(hist[4], 2)

AllSpaces(s) == \A i \in DOMAIN s : IsSpace(s[i])

\* s and u differ only in leading/trailing whitespace or letter case
SameUpToCaseAndPadding(s, u) ==
    \E a \in 0..Len(s), c \in 0..Len(u) :
      \E b \in a..Len(s), e \in c..Len(u) :
        /\ AllSpaces(SubSeq(s, 1, a)) /\ AllSpaces(SubSeq(s, b + 1, Len(s)))
        /\ AllSpaces(SubSeq(u, 1, c)) /\ AllSpaces(SubSeq(u, e + 1, Len(u)))
        /\ b - a = e - c
        /\ \A k \in 1..(b - a) : LowerChar(s[a + k]) = LowerChar(u[c + k])

\* rows i and j of d differ only in the whitespace or case of their country
AlikeRows(d, i, j) ==
    LET c == ColIndex(d, COUNTRY)
    IN  /\ \A x \in DOMAIN d.cols : x # c => d.rows[i][x] = d.rows[j][x]
        /\ IsStr(d.rows[i][c]) /\ IsStr(d.rows[j][c])
        /\ SameUpToCaseAndPadding(d.rows[i][c].s, d.rows[j][c].s)

\* C4: two input rows that differ only in the leading/trailing whitespace
\* or letter case of their country are equal after Stage 2, are one row
\* after Stage 3, and are summed once by Stage 4: the sums of their pair are
\* the sums over the distinct cleaned rows of the pair.
C4_AlikeRowsCountOnce ==
    (stage >= 2 /\ HasCountry(hist[2])) =>
        \A i, j \in DOMAIN hist[2].rows :
            (i < j /\ AlikeRows(hist[2], i, j)) =>
                /\ Len(hist[3].rows) = Len(hist[2].rows)
                /\ hist[3].rows[i] = hist[3].rows[j]
                /\ (stage >= 3 /\ ~HasNull(hist[3].rows[i])) =>
                      Cardinality({ k \in DOMAIN hist[4].rows :
                                      hist[4].rows[k] = hist[3].rows[i] }) = 1
                /\ (stage = 4 /\ ~HasNull(hist[3].rows[i])
                             /\ RequiredColumns \subseteq ColumnSet(hist[3])) =>
                      LET d2 == hist[3]
                          d4 == hist[5]
                          Once == { d2.rows[q] : q \in { x \in DOMAIN d2.rows :
                                      /\ ~HasNull(d2.rows[x])
                                      /\ PairAt(d2, x) = PairAt(d2, i) } }
                      IN  \E k \in DOMAIN d4.rows :
                            /\ PairAt(d4, k) = PairAt(d2, i)
                            /\ \A name \in {CASES, DEATHS, RECOVERED} :
                                 d4.rows[k][ColIndex(d4, name)]
                                   = Num(SumRowSet(Once, ColIndex(d2, name)))

\* C4 witness: the rows (" a", 1, 1, 1, 3) and ("A", 1, 1, 1, 3) went
\* through the four stages and left one row with cases 1.
C4_Witness ==
    /\ stage = 4
    /\ RequiredColumns \subseteq ColumnSet(hist[2])
    /\ Len(hist[1].rows) = 2
    /\ hist[1].rows[1] # hist[1].rows[2]
    /\ AlikeRows(hist[2], 1, 2)
    /\ Len(hist[5].rows) = 1
    /\ hist[5].rows[1][ColIndex(hist[5], CASES)] = hist[1].rows[1][ColIndex(hist[2], CASES)]

\* C5: no stage of the pipeline raises, whatever the input frame.
C5_PipelineIsTotal == status # "error"

NoPadding(s) == s = <<>> \/ (~IsSpace(s[1]) /\ ~IsSpace(s[Len(s)]))

\* letter i of s is the first letter of its whitespace-separated word
FirstLetterOfWord(s, i) ==
    \A j \in 1..(i - 1) :
        (\A k \in j..(i - 1) : ~IsSpace(s[k])) => ~IsLetter(s[j])

\* the first letter of each whitespace-separated word is upper case, every
\* other letter lower case
WordTitleForm(s) ==
    \A i \in DOMAIN s :
        IsLetter(s[i]) => IF FirstLetterOfWord(s, i) THEN IsUpper(s[i]) ELSE IsLower(s[i])

\* a letter is upper case when no letter precedes it directly, lower case
\* when one does
LetterRunTitleForm(s) ==
    \A i \in DOMAIN s :
        IsLetter(s[i]) =>
            IF i = 1 \/ ~IsLetter(s[i - 1]) THEN IsUpper(s[i]) ELSE IsLower(s[i])

\* the country column after Stage 2 satisfies Form: non-null values are
\* strings without padding in the form, nulls stay null
CountryCleaned(Form(_)) ==
    (stage >= 2 /\ HasCountry(hist[2])) =>
        LET c == ColIndex(hist[2], COUNTRY)
        IN  /\ Len(hist[3].rows) = Len(hist[2].rows)
            /\ \A r \in DOMAIN hist[3].rows :
                 LET old == hist[2].rows[r][c]
                     new == hist[3].rows[r][c]
                 IN  /\ new # NULL => (IsStr(new) /\ NoPadding(new.s) /\ Form(new.s))
                     /\ old = NULL => new = NULL
                     /\ IsStr(old) => IsStr(new)

\* C7 as stated: after Stage 2 every non-null country is without leading or
\* trailing whitespace and has the first letter of each whitespace-separated
\* word in upper case and every other letter in lower case; nulls stay null.
C7_CountryInWordTitleForm == CountryCleaned(WordTitleForm)

\* C7 amended: after Stage 2 every non-null country is without leading or
\* trailing whitespace and has every letter that follows a letter in lower
\* case and every other letter (at the start, after whitespace, after any
\* other character such as a hyphen) in upper case; nulls stay null.
C7_CountryInLetterRunTitleForm == CountryCleaned(LetterRunTitleForm)

\* C7 witness: Stage 2 turned " a-A" into "A-A".
C7_Witness ==
    /\ stage >= 2
    /\ hist[1].cols = <<RawCountry>>
    /\ hist[1].rows = << <<Str(<<" ","a","-","A">>)>> >>
    /\ hist[3].rows = << <<Str(<<"A","-","A">>)>> >>

(***************************************************************************)
(* Properties of the handler and the upload folder, checked under Spec     *)
(***************************************************************************)
\* q submitted a file whose name ends in neither '.csv' nor '.json'
UnsupportedUpload(q) ==
    /\ q.hasFile
    /\ q.filename # NameNone
    /\ ~EndsWith(q.filename, ExtCsv)
    /\ ~EndsWith(q.filename, ExtJson)

Succeeded(q) == q.pc = "done" /\ q.response.kind = "html"

\* such a request never parses or cleans, and answers with the one text
UnsupportedIsRefused ==
    \A r \in Requests :
        UnsupportedUpload(req[r]) =>
            /\ req[r].pc \in {"save", "saving", "load", "done"}
            /\ req[r].df = NoFrame
            /\ req[r].pc = "done" =>
                 req[r].response = TextResponse("Unsupported file format")

\* a step of such a request changes no file but the one of its own name,
\* and that one only by saving the raw upload into it
UnsupportedWritesOnlyUpload ==
    \A r \in Requests :
        (req'[r] # req[r] /\ UnsupportedUpload(req'[r])) =>
            /\ lastWriter' = lastWriter
            /\ \A f \in FileNames \ {req'[r].filename} : fs'[f] = fs[f]
            /\ LET old == fs[req'[r].filename]
                   new == fs'[req'[r].filename]
                   up == req'[r].upload
               IN  \/ new = old
                   \/ new = Truncated
                   \/ new.exists /\ SubSeq(new.lines, 1, Len(up)) = up

\* C6: an upload whose (non-empty) name ends in neither '.csv' nor '.json'
\* is answered with exactly "Unsupported file format", runs no cleaning
\* stage, and its steps change nothing in the upload folder except the file
\* of its own name, which receives the raw upload: cleaned_data.csv keeps
\* its content, or stays absent.
C6_UnsupportedFormat == []UnsupportedIsRefused /\ [][UnsupportedWritesOnlyUpload]_vars

\* C6 witness: a '.txt' upload was refused after another request had written
\* cleaned_data.csv, which still holds that request's output.
C6_Witness ==
    \E r, o \in Requests :
        /\ r # o
        /\ req[r].pc = "done"
        /\ req[r].filename = NameTxt
        /\ req[r].response = TextResponse("Unsupported file format")
        /\ fs[NameTxt] = [exists |-> TRUE, lines |-> req[r].upload]
        /\ Succeeded(req[o])
        /\ lastWriter = o
        /\ fs[CleanedName] = [exists |-> TRUE, lines |-> ToCsv(req[o].df)]

\* C8: after a successful upload, alone on the server, the upload folder
\* holds the uploaded file under its submitted name with its submitted
\* content, and the cleaned output under cleaned_data.csv.
C8_BothArtifactsStored ==
    \A r \in Requests :
        (Succeeded(req[r]) /\ \A o \in Requests \ {r} : req[o].pc = "idle") =>
            /\ fs[req[r].filename] = [exists |-> TRUE, lines |-> req[r].upload]
            /\ fs[CleanedName] = [exists |-> TRUE, lines |-> ToCsv(req[r].df)]

C10_ResponseIsOwnUploadCleaned ==
    \A r \in Requests :
        Succeeded(req[r]) =>
            req[r].response.table = Pipeline(ReadFrame(req[r].upload)).df

====
